---- MODULE Spec2Model ----
(***************************************************************************)
(* Deployment workflow of fastapi-sample-testing: the two deploy scripts   *)
(* (deploy.sh, local docker build; deploy-no-docker.sh, remote CodeBuild   *)
(* build), the CDK app entry point infra/bin/app.ts and the AppRunnerStack *)
(* it instantiates.  One run of one script is a sequential process whose   *)
(* position is pc; every external command either succeeds or fails, and a  *)
(* failure ends the run under `set -e` unless the script guards it.        *)
(***************************************************************************)
EXTENDS Integers, Sequences, FiniteSets, TLC

\* ------------------------------------------------------------------ bounds

\* most status queries one run of the polling loop is followed for
MaxPolls == 3

\* ------------------------------------------------------------ string helpers

StartsWith(s, p) == Len(s) >= Len(p) /\ SubSeq(s, 1, Len(p)) = p

Contains(s, p) ==
  \E i \in 1..(Len(s) - Len(p) + 1) : SubSeq(s, i, i + Len(p) - 1) = p

UpperChars == "ABCDEFGHIJKLMNOPQRSTUVWXYZ"
LowerChars == "abcdefghijklmnopqrstuvwxyz"

LowerChar(c) ==
  IF \E i \in 1..Len(UpperChars) : SubSeq(UpperChars, i, i) = c
  THEN LET i == CHOOSE j \in 1..Len(UpperChars) : SubSeq(UpperChars, j, j) = c
       IN  SubSeq(LowerChars, i, i)
  ELSE c

RECURSIVE ToLowerCase(_)
ToLowerCase(s) ==
  IF Len(s) = 0 THEN ""
  ELSE LowerChar(SubSeq(s, 1, 1)) \o ToLowerCase(SubSeq(s, 2, Len(s)))

IsSpace(c) == c = " " \/ c = "\n" \/ c = "\t"

\* what $(...) keeps of a command's output: trailing newlines are removed
RECURSIVE StripTrailingNewlines(_)
StripTrailingNewlines(s) ==
  IF Len(s) > 0 /\ SubSeq(s, Len(s), Len(s)) = "\n"
  THEN StripTrailingNewlines(SubSeq(s, 1, Len(s) - 1))
  ELSE s

RECURSIVE TrimStart(_)
TrimStart(s) ==
  IF Len(s) > 0 /\ IsSpace(SubSeq(s, 1, 1))
  THEN TrimStart(SubSeq(s, 2, Len(s)))
  ELSE s

RECURSIVE TrimEnd(_)
TrimEnd(s) ==
  IF Len(s) > 0 /\ IsSpace(SubSeq(s, Len(s), Len(s)))
  THEN TrimEnd(SubSeq(s, 1, Len(s) - 1))
  ELSE s

\* String.prototype.trim
Trim(s) == TrimEnd(TrimStart(s))

\* index of the last "/" of a path, 0 when there is none
RECURSIVE LastSlash(_, _)
LastSlash(path, i) ==
  IF i = 0 THEN 0
  ELSE IF SubSeq(path, i, i) = "/" THEN i ELSE LastSlash(path, i - 1)

\* the directory `cd ..` reaches from path
ParentDir(path) ==
  LET k == LastSlash(path, Len(path))
  IN  IF k <= 1 THEN "/" ELSE SubSeq(path, 1, k - 1)

\* the directory `cd rel` names when the shell is in cwd
ResolvePath(cwd, rel) ==
  IF StartsWith(rel, "/") THEN rel
  ELSE IF rel = ".." THEN ParentDir(cwd)
  ELSE IF StartsWith(rel, "../")
       THEN (IF ParentDir(cwd) = "/" THEN "/" ELSE ParentDir(cwd) \o "/")
              \o SubSeq(rel, 4, Len(rel))
  ELSE (IF cwd = "/" THEN "/" ELSE cwd \o "/") \o rel

\* ------------------------------------------------------------------ inputs

Undefined == "(undefined)"

\* first positional argument of the script; "" is an absent (or empty) argument
Arguments == {"", "dev", "prod", "staging", "preview-bob"}

\* outcome of `whoami`
WhoamiOutcomes == {[ok |-> TRUE, out |-> "alice\n"], [ok |-> FALSE, out |-> ""]}

Variants == {"deploy.sh", "deploy-no-docker.sh"}

RepoRoot == "/repo"
TmpRoot == "/tmp"

\* ------------------------------------------------- CDK app (infra/bin/app.ts)

\* JavaScript truthiness of a string-or-undefined value
Truthy(v) == v # Undefined /\ v # ""

\* a || b on string-or-undefined values
OrElse(a, b) == IF Truthy(a) THEN a ELSE b

\* process.env.USER || execSync("whoami").toString().trim(), "preview-local" on a throw
getDefaultEnvironment(penv) ==
  IF Truthy(penv.USER) THEN "preview-" \o penv.USER
  ELSE IF penv.whoami.ok THEN "preview-" \o Trim(penv.whoami.out)
  ELSE "preview-local"

\* an imageConfiguration that sets runtimeEnvironmentSecrets unconditionally
imageConfigurationAlwaysSecrets(environment, port, environmentVariables, secretsArn) ==
  [ port |-> port,
    runtimeEnvironmentVariables |->
      << [name |-> "ENVIRONMENT", value |-> environment],
         [name |-> "PORT", value |-> port] >> \o environmentVariables,
    runtimeEnvironmentSecrets |->
      IF Truthy(secretsArn)
      THEN << [name |-> "MYSQL_USER", value |-> secretsArn \o ":MYSQL_USER::"],
              [name |-> "MYSQL_PASSWORD", value |-> secretsArn \o ":MYSQL_PASSWORD::"],
              [name |-> "MYSQL_HOST", value |-> secretsArn \o ":MYSQL_HOST::"],
              [name |-> "MYSQL_DATABASE", value |-> secretsArn \o ":MYSQL_DATABASE::"] >>
      ELSE << >> ]

\* imageConfiguration of the App Runner service: config.runtimeEnvironmentSecrets is
\* set only if (secretsArn)
imageConfiguration(environment, port, environmentVariables, secretsArn) ==
  LET config ==
        [ port |-> port,
          runtimeEnvironmentVariables |->
            << [name |-> "ENVIRONMENT", value |-> environment],
               [name |-> "PORT", value |-> port] >> \o environmentVariables ]
  IN  IF Truthy(secretsArn)
      THEN [ port |-> config.port,
             runtimeEnvironmentVariables |-> config.runtimeEnvironmentVariables,
             runtimeEnvironmentSecrets |->
               << [name |-> "MYSQL_USER", value |-> secretsArn \o ":MYSQL_USER::"],
                  [name |-> "MYSQL_PASSWORD", value |-> secretsArn \o ":MYSQL_PASSWORD::"],
                  [name |-> "MYSQL_HOST", value |-> secretsArn \o ":MYSQL_HOST::"],
                  [name |-> "MYSQL_DATABASE", value |-> secretsArn \o ":MYSQL_DATABASE::"] >> ]
      ELSE config

\* repository.repositoryUri of the stack id
RepositoryUri(id) == "123456789012.dkr.ecr.us-east-1.amazonaws.com/" \o ToLowerCase(id)

\* an AppRunnerStack with the RepositoryUri output inside `if (createService)`
AppRunnerStackUriWithService(id, props) ==
  [ id |-> id,
    kind |-> "AppRunnerStack",
    environment |-> props.environment,
    repositoryName |-> ToLowerCase(id),
    createService |-> props.createService,
    resources |->
      {"Repository"}
        \cup (IF props.createService
              THEN {"InstanceRole", "AccessRole", "Service"}
                     \cup (IF Truthy(props.secretsArn) THEN {"SecretReadGrant"} ELSE {})
              ELSE {}),
    service |->
      IF props.createService
      THEN [ declared |-> TRUE,
             serviceName |-> id,
             imageIdentifier |-> RepositoryUri(id) \o ":latest",
             imageConfiguration |->
               imageConfiguration(props.environment, props.port,
                                  props.environmentVariables, props.secretsArn) ]
      ELSE [ declared |-> FALSE ],
    secretReadGrants |->
      IF props.createService /\ Truthy(props.secretsArn) THEN {props.secretsArn} ELSE {},
    outputs |->
      IF props.createService THEN {"ServiceUrl", "ServiceId", "RepositoryUri"} ELSE {} ]

\* the resources and outputs one AppRunnerStack declares
AppRunnerStack(id, props) ==
  [ id |-> id,
    kind |-> "AppRunnerStack",
    environment |-> props.environment,
    repositoryName |-> ToLowerCase(id),
    createService |-> props.createService,
    resources |->
      {"Repository"}
        \cup (IF props.createService
              THEN {"InstanceRole", "AccessRole", "Service"}
                     \cup (IF Truthy(props.secretsArn) THEN {"SecretReadGrant"} ELSE {})
              ELSE {}),
    service |->
      IF props.createService
      THEN [ declared |-> TRUE,
             serviceName |-> id,
             imageIdentifier |-> RepositoryUri(id) \o ":latest",
             imageConfiguration |->
               imageConfiguration(props.environment, props.port,
                                  props.environmentVariables, props.secretsArn) ]
      ELSE [ declared |-> FALSE ],
    secretReadGrants |->
      IF props.createService /\ Truthy(props.secretsArn) THEN {props.secretsArn} ELSE {},
    outputs |->
      (IF props.createService THEN {"ServiceUrl", "ServiceId"} ELSE {})
        \cup {"RepositoryUri"} ]

AppEnvironmentVariables ==
  << [name |-> "NODE_ENV", value |-> "production"],
     [name |-> "LOG_LEVEL", value |-> "info"] >>

\* the stacks the app declares for the context ctx and process environment penv
CdkApp(ctx, penv) ==
  LET codeConnectionArn == OrElse(ctx.codeConnectionArn, OrElse(penv.CODE_CONNECTION_ARN, ""))
      pipelineOnly == ctx.pipelineOnly = "true"
      environment == OrElse(ctx.environment, getDefaultEnvironment(penv))
      createService == ctx.createService # "false"
      secretsArn == ctx.secretsArn
      perEnv ==
        IF pipelineOnly THEN {}
        ELSE IF StartsWith(environment, "preview-")
        THEN { AppRunnerStack("FastApiRunner-" \o environment,
                 [ environment |-> environment, port |-> "8080",
                   environmentVariables |-> AppEnvironmentVariables,
                   secretsArn |-> secretsArn, createService |-> createService ]) }
        ELSE { AppRunnerStack("FastApiRunner-" \o env,
                 [ environment |-> env, port |-> "8080",
                   environmentVariables |-> AppEnvironmentVariables,
                   secretsArn |-> Undefined, createService |-> TRUE ])
               : env \in {"dev", "prod"} }
      pipeline ==
        IF Truthy(codeConnectionArn)
        THEN { [ id |-> "FastApiSamplePipelineStack", kind |-> "PipelineStack",
                 resources |-> {"Pipeline"}, outputs |-> {} ] }
        ELSE {}
  IN  perEnv \cup pipeline

\* ---------------------------------------------------- control plane (AWS)

\* value of the output key of the deployed stack name
OutputValue(name, key) ==
  IF key = "RepositoryUri" THEN RepositoryUri(name)
  ELSE IF key = "ServiceUrl" THEN "https://" \o ToLowerCase(name) \o ".awsapprunner.com"
  ELSE ToLowerCase(name) \o "-id"

\* `describe-stacks --query Stacks[0].Outputs[?OutputKey==key].OutputValue --output text`
\* on an existing stack: "None" when the stack has no outputs, "" when none matches
QueryOutput(stack, name, key) ==
  IF stack.outputs = {} THEN "None"
  ELSE IF key \in stack.outputs THEN OutputValue(name, key)
  ELSE ""

\* the stacks after `cdk deploy` has converged every stack of decl
Converge(old, decl) ==
  [ n \in DOMAIN old \cup {d.id : d \in decl} |->
      IF \E d \in decl : d.id = n
      THEN LET d == CHOOSE x \in decl : x.id = n
           IN  [resources |-> d.resources, outputs |-> d.outputs]
      ELSE old[n] ]

\* responses of `aws cloudformation describe-stacks --stack-name name`
DescribeStacksResponses(old, name) ==
  (IF name \in DOMAIN old
   THEN { [ok |-> TRUE, kind |-> "exists",
           out |-> "{\"Stacks\": [{\"StackName\": \"" \o name \o "\"}]}\n"] }
   ELSE { [ok |-> FALSE, kind |-> "not_found",
           out |-> "An error occurred (ValidationError) when calling the DescribeStacks operation: Stack with id "
                     \o name \o " does not exist\n"] })
  \cup { [ok |-> FALSE, kind |-> "other_error",
          out |-> "An error occurred (AccessDenied) when calling the DescribeStacks operation\n"],
         [ok |-> FALSE, kind |-> "empty_error", out |-> ""] }


\* ------------------------------------------------ the delivery pipeline

\* a stage declared with the mandatory approval after the production deployment
StagesApprovalLast ==
  << [stageName |-> "Source", actions |-> {"Source"}],
     [stageName |-> "UpdatePipeline", actions |-> {"UpdatePipeline"}],
     [stageName |-> "Quality", actions |-> {"LintTypeSecrets", "UnitTests", "DepScan"}],
     [stageName |-> "Build", actions |-> {"DockerBuild", "IacSynth"}],
     [stageName |-> "DeployDev", actions |-> {"DeployAppRunnerDev"}],
     [stageName |-> "DeployProd", actions |-> {"DeployAppRunnerProd"}],
     [stageName |-> "ManualApproval", actions |-> {"ApproveProductionDeployment"}] >>

\* const stages: the stages of the pipeline in their declared order, each with
\* the names of its actions; no action sets a runOrder other than 1, so the
\* actions of a stage run side by side
Stages ==
  << [stageName |-> "Source", actions |-> {"Source"}],
     [stageName |-> "UpdatePipeline", actions |-> {"UpdatePipeline"}],
     [stageName |-> "Quality", actions |-> {"LintTypeSecrets", "UnitTests", "DepScan"}],
     [stageName |-> "Build", actions |-> {"DockerBuild", "IacSynth"}],
     [stageName |-> "DeployDev", actions |-> {"DeployAppRunnerDev"}],
     [stageName |-> "ManualApproval", actions |-> {"ApproveProductionDeployment"}],
     [stageName |-> "DeployProd", actions |-> {"DeployAppRunnerProd"}] >>

ActionNames == UNION {Stages[i].actions : i \in 1..Len(Stages)}

\* the pipeline has been created and has not executed yet
NoExecutions == << >>

\* an execution as it is started: before the first stage, no action started
NewExecution ==
  [ stage |-> 0, status |-> "InProgress", waiting |-> TRUE,
    actions |-> [a \in ActionNames |-> "none"] ]
\* ------------------------------------------------------- the deploy scripts

VARIABLES
  variant,      \* which script runs
  arg1,         \* its first argument
  whoami,       \* what `whoami` does in this run
  other,        \* the run that is not executing: its shell state, or no such run
  pc,           \* position of the script
  exitCode,     \* exit status once pc = "done"
  cwd,          \* working directory of the shell
  dirs,         \* directories that exist
  sh,           \* shell variables of the script
  stacks,       \* deployed stacks: name -> resources and outputs
  images,       \* image references pushed to the registries
  codebuild,    \* remote build projects, roles, buckets, builds
  log,          \* external commands run so far, in order
  probe,        \* raw response of the stack-existence probe
  deploys,      \* every `cdk deploy` issued: its context and the stacks declared
  statusLog,    \* build statuses returned by the queries of the polling loop
  sleeps,       \* interval sleeps of the polling loop
  waited,       \* time slept in the polling loop
  printed,      \* what the result reporter printed
  hist,         \* what has happened in the run: its number, the commands that failed,
                \* the URI was read, the publisher finished, the endpoint query,
                \* the loop has gone beyond the iterations on record
  pipeline      \* executions of the delivery pipeline, oldest first

vars == << variant, arg1, whoami, other, pc, exitCode, cwd, dirs, sh, stacks, images,
           codebuild, log, probe, deploys, statusLog, sleeps, waited, printed, hist,
           pipeline >>

\* what no step of a run changes: its inputs, the run that is not executing and
\* the executions of the pipeline
inputs == << variant, arg1, whoami, other, pipeline >>
cloud == << stacks, images, codebuild >>
poll == << statusLog, sleeps, waited >>

InfraDir == RepoRoot \o "/infra"
AppDir == RepoRoot \o "/app"

\* decimal digit n as text
Digit(n) == SubSeq("0123456789", n + 1, n + 1)

\* ENVIRONMENT="${1:-preview-$(whoami)}" under set -e
ScriptEnvironment(arg, w) ==
  IF arg # "" THEN [ok |-> TRUE, value |-> arg]
  ELSE IF w.ok THEN [ok |-> TRUE, value |-> "preview-" \o StripTrailingNewlines(w.out)]
  ELSE [ok |-> FALSE, value |-> ""]

\* STACK_NAME="FastApiRunner-${ENVIRONMENT}"
StackName(environment) == "FastApiRunner-" \o environment

\* $(cmd 2>&1 || echo fallback)
CaptureOr(r, fallback) ==
  IF r.ok THEN StripTrailingNewlines(r.out)
  ELSE StripTrailingNewlines(r.out \o fallback \o "\n")

\* the test replaced by an unconditional first deployment
IsFirstDeploymentAlways(stackExists) == TRUE

\* the test with the glob pattern replaced by an equality
IsFirstDeploymentExact(stackExists) ==
  stackExists = "does not exist" \/ stackExists = "NONE"

\* [[ "$STACK_EXISTS" == *"does not exist"* ]] || [[ "$STACK_EXISTS" == "NONE" ]]
IsFirstDeployment(stackExists) ==
  Contains(stackExists, "does not exist") \/ stackExists = "NONE"

\* the test without the comparison with "None"
UriMissingEmptyOnly(uri) == uri = ""

\* [ "$REPOSITORY_URI" = "None" ] || [ -z "$REPOSITORY_URI" ]
UriMissing(uri) == uri = "None" \/ uri = ""

\* exit status of a failing command under set -e
FailCode(cmd) == IF cmd = "aws" THEN 255 ELSE 1

\* `cdk bootstrap || true` in deploy.sh as well
GuardedBootstrapEverywhere(v, cmd) ==
  \/ cmd \in {"describe-stacks", "describe-stacks ServiceUrl", "cdk bootstrap"}
  \/ /\ v = "deploy-no-docker.sh"
     /\ cmd \in {"cp -r infra", "list-projects", "get-role", "create-role", "s3 mb",
                 "create-project", "batch-get-projects"}

\* the commands whose failure the script v guards: `|| true`, `|| echo ...`, or the
\* left side of a pipeline
Guarded(v, cmd) ==
  \/ cmd \in {"describe-stacks", "describe-stacks ServiceUrl"}
  \/ /\ v = "deploy-no-docker.sh"
     /\ cmd \in {"cdk bootstrap", "cp -r infra", "list-projects", "get-role",
                 "create-role", "s3 mb", "create-project", "batch-get-projects"}

\* context of the cdk app for the --context options given
Context(environment, createService) ==
  [ environment |-> environment, createService |-> createService,
    secretsArn |-> Undefined, pipelineOnly |-> Undefined,
    codeConnectionArn |-> Undefined ]

ProcessEnv ==
  [ USER |-> IF whoami.ok THEN Trim(whoami.out) ELSE Undefined,
    whoami |-> whoami,
    CODE_CONNECTION_ARN |-> Undefined ]

InitialShell ==
  [ ENVIRONMENT |-> "", STACK_NAME |-> "", STACK_EXISTS |-> "", REPOSITORY_URI |-> "",
    TEMP_DIR |-> "", PROJECT_NAME |-> "", PROJECT_EXISTS |-> "", BUCKET_NAME |-> "",
    BUILD_ID |-> "", BUILD_STATUS |-> "", SERVICE_URL |-> "" ]

\* history of the run number n before its first step
InitialHistory(n) ==
  [ run |-> n, failures |-> << >>, uriRead |-> FALSE, published |-> FALSE,
    urlQuery |-> "", beyond |-> FALSE ]

\* the history h after the command cmd has failed, lg being the commands run so far
Failed(h, cmd, lg) ==
  [h EXCEPT !.failures = Append(@, [cmd |-> cmd, at |-> Len(lg)])]

\* no second run
NoRun == [active |-> FALSE]

\* what an earlier run may have left of the stack name
EarlierStates(name) ==
  { [st |-> << >>, im |-> {}],
    [st |-> (name :> [resources |-> {}, outputs |-> {}]), im |-> {}],
    [st |-> (name :> [resources |-> {"Repository"}, outputs |-> {"RepositoryUri"}]),
     im |-> {}],
    [st |-> (name :> [resources |-> {"Repository"}, outputs |-> {"RepositoryUri"}]),
     im |-> {RepositoryUri(name) \o ":latest"}],
    [st |-> (name :> [resources |-> {"Repository", "InstanceRole", "AccessRole", "Service"},
                      outputs |-> {"RepositoryUri", "ServiceUrl", "ServiceId"}]),
     im |-> {RepositoryUri(name) \o ":latest"}] }

NoProjects == [projects |-> << >>, roles |-> {}, buckets |-> << >>, builds |-> << >>]

\* what an earlier run (number 0) of deploy-no-docker.sh may have left for the
\* environment: the project, its role, and the bucket with that run's archive
EarlierProjects(v, environment) ==
  { NoProjects }
  \cup (IF v = "deploy-no-docker.sh"
        THEN { [ projects |->
                   ("fastapi-build-" \o environment) :>
                     [ location |-> "codebuild-source-" \o environment \o "-1700000000/source.zip",
                       serviceRole |-> "codebuild-fastapi-build-" \o environment \o "-role" ],
                 roles |-> {"codebuild-fastapi-build-" \o environment \o "-role"},
                 buckets |->
                   ("codebuild-source-" \o environment \o "-1700000000")
                     :> ("source.zip" :> 0),
                 builds |-> << >> ] }
        ELSE {})

\* the shell of a run before its first step
FreshRun(n) ==
  /\ pc = "start"
  /\ exitCode = 0
  /\ cwd = RepoRoot
  /\ sh = InitialShell
  /\ log = << >>
  /\ probe = [ok |-> TRUE, kind |-> "none", out |-> ""]
  /\ deploys = << >>
  /\ statusLog = << >>
  /\ sleeps = 0
  /\ waited = 0
  /\ printed = << >>
  /\ hist = InitialHistory(n)

Init ==
  /\ variant \in Variants
  /\ arg1 \in Arguments
  /\ whoami \in WhoamiOutcomes
  /\ other = NoRun
  /\ pipeline = NoExecutions
  /\ FreshRun(1)
  /\ dirs = {"/", RepoRoot, InfraDir, AppDir, TmpRoot}
  /\ \E e \in EarlierStates(StackName(ScriptEnvironment(arg1, whoami).value)) :
       /\ stacks = e.st
       /\ images = e.im
  /\ codebuild \in EarlierProjects(variant, ScriptEnvironment(arg1, whoami).value)

\* the script ends with status code
Exit(code) ==
  /\ pc' = "done"
  /\ exitCode' = code

\* the command cmd of the program tool has failed under set -e: the script ends
\* with its status
Abort(cmd, tool, lg) ==
  /\ Exit(FailCode(tool))
  /\ hist' = Failed(hist, cmd, lg)

\* lines 5-7 (deploy-no-docker.sh), 91-93 (deploy.sh)
ResolveEnvironment ==
  /\ pc = "start"
  /\ LET r == ScriptEnvironment(arg1, whoami)
     IN  IF r.ok
         THEN /\ sh' = [sh EXCEPT !.ENVIRONMENT = r.value,
                                  !.STACK_NAME = StackName(r.value)]
              /\ pc' = "check_aws"
              /\ UNCHANGED << exitCode, hist >>
         ELSE /\ Abort("whoami", "whoami", log)
              /\ UNCHANGED sh
  /\ UNCHANGED << inputs, cwd, dirs, cloud, log, probe, deploys, poll, printed >>

\* if ! aws sts get-caller-identity ...; then exit 1
CheckAwsCli ==
  /\ pc = "check_aws"
  /\ \E ok \in BOOLEAN :
       IF ok
       THEN /\ pc' = IF variant = "deploy.sh" THEN "check_docker" ELSE "install_cdk"
            /\ UNCHANGED << exitCode, hist >>
       ELSE /\ Exit(1)
            /\ hist' = Failed(hist, "aws sts get-caller-identity", log)
  /\ UNCHANGED << inputs, cwd, dirs, sh, cloud, log, probe, deploys, poll, printed >>

\* the docker check without its `exit 1`
CheckDockerNoExit ==
  /\ pc = "check_docker"
  /\ \E ok \in BOOLEAN :
       /\ pc' = "install_cdk"
       /\ hist' = IF ok THEN hist ELSE Failed(hist, "docker info", log)
  /\ UNCHANGED << inputs, exitCode, cwd, dirs, sh, cloud, log, probe, deploys, poll,
                  printed >>

\* if ! docker info ...; then exit 1 (deploy.sh only)
CheckDocker ==
  /\ pc = "check_docker"
  /\ \E ok \in BOOLEAN :
       IF ok
       THEN /\ pc' = "install_cdk"
            /\ UNCHANGED << exitCode, hist >>
       ELSE /\ Exit(1)
            /\ hist' = Failed(hist, "docker info", log)
  /\ UNCHANGED << inputs, cwd, dirs, sh, cloud, log, probe, deploys, poll, printed >>

\* if ! command -v cdk; then npm install -g aws-cdk
InstallCdk ==
  /\ pc = "install_cdk"
  /\ \E have \in BOOLEAN, ok \in BOOLEAN :
       IF have
       THEN /\ pc' = "install_deps"
            /\ UNCHANGED << exitCode, log, hist >>
       ELSE /\ log' = Append(log, "npm install -g aws-cdk")
            /\ IF ok
               THEN /\ pc' = "install_deps"
                    /\ UNCHANGED << exitCode, hist >>
               ELSE Abort("npm install -g aws-cdk", "npm", log')
  /\ UNCHANGED << inputs, cwd, dirs, sh, cloud, probe, deploys, poll, printed >>

\* cd infra; npm install; npm run build
InstallDeps ==
  /\ pc = "install_deps"
  /\ LET target == ResolvePath(cwd, "infra")
     IN  IF target \notin dirs
         THEN /\ Abort("cd", "cd", log)
              /\ UNCHANGED << cwd, log >>
         ELSE /\ cwd' = target
              /\ \E failed \in {"", "npm install", "npm run build"} :
                   /\ log' = IF failed = "npm install"
                             THEN Append(log, "npm install")
                             ELSE log \o << "npm install", "npm run build" >>
                   /\ IF failed = ""
                      THEN /\ pc' = "cdk_bootstrap"
                           /\ UNCHANGED << exitCode, hist >>
                      ELSE Abort(failed, "npm", log')
  /\ UNCHANGED << inputs, dirs, sh, cloud, probe, deploys, poll, printed >>

\* cdk bootstrap (deploy.sh); cdk bootstrap || true (deploy-no-docker.sh)
CdkBootstrap ==
  /\ pc = "cdk_bootstrap"
  /\ log' = Append(log, "cdk bootstrap")
  /\ \E ok \in BOOLEAN :
       IF ok
       THEN /\ pc' = "probe"
            /\ UNCHANGED << exitCode, hist >>
       ELSE IF Guarded(variant, "cdk bootstrap")
       THEN /\ pc' = "probe"
            /\ hist' = Failed(hist, "cdk bootstrap", log')
            /\ UNCHANGED exitCode
       ELSE Abort("cdk bootstrap", "cdk", log')
  /\ UNCHANGED << inputs, cwd, dirs, sh, cloud, probe, deploys, poll, printed >>

\* STACK_EXISTS=$(aws cloudformation describe-stacks ... 2>&1 || echo "NONE")
ProbeStack ==
  /\ pc = "probe"
  /\ log' = Append(log, "describe-stacks")
  /\ \E r \in DescribeStacksResponses(stacks, sh.STACK_NAME) :
       /\ probe' = r
       /\ IF r.ok \/ Guarded(variant, "describe-stacks")
          THEN /\ sh' = [sh EXCEPT !.STACK_EXISTS = CaptureOr(r, "NONE")]
               /\ hist' = IF r.ok THEN hist ELSE Failed(hist, "describe-stacks", log')
               /\ pc' = "first_deploy"
               /\ UNCHANGED exitCode
          ELSE /\ Abort("describe-stacks", "aws", log')
               /\ UNCHANGED sh
  /\ UNCHANGED << inputs, cwd, dirs, cloud, deploys, poll, printed >>

\* `cdk deploy` with the context ctx, run in the directory dir: the declared
\* stacks are converged, or the command fails and the script ends
CdkDeploy(ctx, dir, label, next) ==
  /\ log' = Append(log, label)
  /\ LET decl == CdkApp(ctx, ProcessEnv)
     IN  /\ deploys' = Append(deploys, [ctx |-> ctx, decl |-> decl])
         /\ \E ok \in BOOLEAN :
              IF ok /\ dir = InfraDir
              THEN /\ stacks' = Converge(stacks, decl)
                   /\ pc' = next
                   /\ UNCHANGED << exitCode, hist >>
              ELSE /\ Abort(label, "cdk", log')
                   /\ UNCHANGED stacks

\* if first deployment: cdk deploy --context environment=... --context createService=false
FirstDeployment ==
  /\ pc = "first_deploy"
  /\ IF IsFirstDeployment(sh.STACK_EXISTS)
     THEN CdkDeploy(Context(sh.ENVIRONMENT, "false"), cwd,
                    "cdk deploy createService=false", "get_uri")
     ELSE /\ pc' = "get_uri"
          /\ UNCHANGED << exitCode, stacks, log, deploys, hist >>
  /\ UNCHANGED << inputs, cwd, dirs, sh, images, codebuild, probe, poll, printed >>

\* REPOSITORY_URI=$(aws cloudformation describe-stacks ...); empty or None: exit 1
GetRepositoryUri ==
  /\ pc = "get_uri"
  /\ log' = Append(log, "describe-stacks RepositoryUri")
  /\ \E ok \in BOOLEAN :
       IF ok /\ sh.STACK_NAME \in DOMAIN stacks
       THEN LET uri == QueryOutput(stacks[sh.STACK_NAME], sh.STACK_NAME, "RepositoryUri")
            IN  /\ sh' = [sh EXCEPT !.REPOSITORY_URI = uri]
                /\ hist' = [hist EXCEPT !.uriRead = TRUE]
                /\ IF UriMissing(uri)
                   THEN Exit(1)
                   ELSE /\ pc' = IF variant = "deploy.sh" THEN "docker_build" ELSE "package"
                        /\ UNCHANGED exitCode
       ELSE /\ Abort("describe-stacks RepositoryUri", "aws", log')
            /\ UNCHANGED sh
  /\ UNCHANGED << inputs, cwd, dirs, cloud, probe, deploys, poll, printed >>

\* -------------------------------------------- image publisher, local build

\* cd ../app; docker build --platform=linux/amd64 -t fastapi-sample:latest .
DockerBuild ==
  /\ pc = "docker_build"
  /\ LET target == ResolvePath(cwd, "../app")
     IN  IF target \notin dirs
         THEN /\ Abort("cd", "cd", log)
              /\ UNCHANGED << cwd, log >>
         ELSE /\ cwd' = target
              /\ log' = Append(log, "docker build")
              /\ \E ok \in BOOLEAN :
                   IF ok
                   THEN /\ pc' = "ecr_login"
                        /\ UNCHANGED << exitCode, hist >>
                   ELSE Abort("docker build", "docker", log')
  /\ UNCHANGED << inputs, dirs, sh, cloud, probe, deploys, poll, printed >>

\* aws ecr get-login-password | docker login --password-stdin $REPOSITORY_URI
EcrLogin ==
  /\ pc = "ecr_login"
  /\ log' = Append(log, "docker login")
  /\ \E ok \in BOOLEAN :
       IF ok
       THEN /\ pc' = "docker_tag"
            /\ UNCHANGED << exitCode, hist >>
       ELSE Abort("docker login", "docker", log')
  /\ UNCHANGED << inputs, cwd, dirs, sh, cloud, probe, deploys, poll, printed >>

\* the tag step with its failure ignored
DockerTagUnchecked ==
  /\ pc = "docker_tag"
  /\ log' = Append(log, "docker tag")
  /\ \E ok \in BOOLEAN :
       /\ pc' = "docker_push"
       /\ hist' = IF ok THEN hist ELSE Failed(hist, "docker tag", log')
  /\ UNCHANGED << inputs, exitCode, cwd, dirs, sh, cloud, probe, deploys, poll, printed >>

\* docker tag fastapi-sample:latest $REPOSITORY_URI:latest
DockerTag ==
  /\ pc = "docker_tag"
  /\ log' = Append(log, "docker tag")
  /\ \E ok \in BOOLEAN :
       IF ok
       THEN /\ pc' = "docker_push"
            /\ UNCHANGED << exitCode, hist >>
       ELSE Abort("docker tag", "docker", log')
  /\ UNCHANGED << inputs, cwd, dirs, sh, cloud, probe, deploys, poll, printed >>

\* docker push $REPOSITORY_URI:latest
DockerPush ==
  /\ pc = "docker_push"
  /\ log' = Append(log, "docker push")
  /\ \E ok \in BOOLEAN :
       IF ok
       THEN /\ images' = images \cup {sh.REPOSITORY_URI \o ":latest"}
            /\ hist' = [hist EXCEPT !.published = TRUE]
            /\ pc' = "deploy"
            /\ UNCHANGED exitCode
       ELSE /\ Abort("docker push", "docker", log')
            /\ UNCHANGED images
  /\ UNCHANGED << inputs, cwd, dirs, sh, stacks, codebuild, probe, deploys, poll, printed >>

\* ------------------------------------------- image publisher, remote build

\* the directory `mktemp -d` creates in the run number n
TempDir(n) == TmpRoot \o "/tmp.deploy" \o Digit(n)

\* seconds of `sleep 10` in the polling loop
PollInterval == 10

\* values `builds[0].buildStatus` takes in the model
BuildStatuses ==
  {"IN_PROGRESS", "SUCCEEDED", "FAILED", "FAULT", "FAULTED", "TIMED_OUT", "STOPPED"}

\* the n-th field of s for the one-character delimiter d, as `cut -d d -f n` prints it:
\* a line without the delimiter is printed whole
RECURSIVE FieldOf(_, _, _)
FieldOf(s, d, n) ==
  LET k == IF \E i \in 1..Len(s) : SubSeq(s, i, i) = d
           THEN CHOOSE i \in 1..Len(s) :
                  /\ SubSeq(s, i, i) = d
                  /\ \A j \in 1..(i - 1) : SubSeq(s, j, j) # d
           ELSE 0
  IN  IF n = 1 THEN (IF k = 0 THEN s ELSE SubSeq(s, 1, k - 1))
      ELSE IF k = 0 THEN ""
      ELSE FieldOf(SubSeq(s, k + 1, Len(s)), d, n - 1)

Cut(s, d, n) == IF Contains(s, d) THEN FieldOf(s, d, n) ELSE s

\* cd ..; TEMP_DIR=$(mktemp -d); cp -r app ...; cd "$TEMP_DIR"; buildspec.yml; zip
Package ==
  /\ pc = "package"
  /\ \E failed \in {"", "mktemp", "cp -r app", "cp -r infra", "zip"} :
       /\ log' = Append(log, "package source")
       /\ IF failed = "mktemp"
          THEN /\ cwd' = ParentDir(cwd)
               /\ UNCHANGED << dirs, sh >>
          ELSE /\ dirs' = dirs \cup {TempDir(hist.run)}
               /\ sh' = [sh EXCEPT !.TEMP_DIR = TempDir(hist.run)]
               /\ cwd' = IF failed = "cp -r app" THEN ParentDir(cwd) ELSE TempDir(hist.run)
       /\ IF failed = ""
          THEN /\ pc' = "check_project"
               /\ UNCHANGED << exitCode, hist >>
          ELSE IF Guarded(variant, failed)
          THEN /\ pc' = "check_project"
               /\ hist' = Failed(hist, failed, log')
               /\ UNCHANGED exitCode
          ELSE Abort(failed, failed, log')
  /\ UNCHANGED << inputs, cloud, probe, deploys, poll, printed >>

ProjectName(environment) == "fastapi-build-" \o environment
RoleName(project) == "codebuild-" \o project \o "-role"
\* BUCKET_NAME="codebuild-source-${ENVIRONMENT}-$(date +%s)" in the run number n
NewBucketName(environment, n) ==
  "codebuild-source-" \o environment \o "-170000000" \o Digit(n)

\* PROJECT_NAME=...; PROJECT_EXISTS=$(aws codebuild list-projects ... 2>/dev/null || echo "")
CheckProject ==
  /\ pc = "check_project"
  /\ log' = Append(log, "list-projects")
  /\ \E ok \in BOOLEAN :
       LET name == ProjectName(sh.ENVIRONMENT)
           exists == IF ok /\ name \in DOMAIN codebuild.projects THEN name ELSE ""
       IN  IF ok \/ Guarded(variant, "list-projects")
           THEN /\ sh' = [sh EXCEPT !.PROJECT_NAME = name, !.PROJECT_EXISTS = exists]
                /\ hist' = IF ok THEN hist ELSE Failed(hist, "list-projects", log')
                /\ pc' = IF exists = "" THEN "create_project" ELSE "upload"
                /\ UNCHANGED exitCode
           ELSE /\ Abort("list-projects", "aws", log')
                /\ sh' = [sh EXCEPT !.PROJECT_NAME = name]
  /\ UNCHANGED << inputs, cwd, dirs, cloud, probe, deploys, poll, printed >>

\* the commands cmds, run in order from the log lg and the history h; the ones in
\* bad fail: the result is the log and the history after the last command run,
\* which is the first unguarded command that fails
RECURSIVE RunCommands(_, _, _, _, _)
RunCommands(v, cmds, bad, lg, h) ==
  IF cmds = << >> THEN [log |-> lg, hist |-> h, ok |-> TRUE]
  ELSE LET c == Head(cmds)
           lg1 == Append(lg, c)
       IN  IF c \notin bad THEN RunCommands(v, Tail(cmds), bad, lg1, h)
           ELSE IF Guarded(v, c)
           THEN RunCommands(v, Tail(cmds), bad, lg1, Failed(h, c, lg1))
           ELSE [log |-> lg1, hist |-> Failed(h, c, lg1), ok |-> FALSE]

\* the body of `if [ -z "$PROJECT_EXISTS" ]`: the role unless get-role finds it, the
\* bucket named after the time, the first upload, create-project
CreateProject ==
  /\ pc = "create_project"
  /\ \E failed \in {"", "get-role", "create-role", "attach-role-policy", "s3 mb",
                    "s3 cp source.zip", "create-project"} :
       LET name == sh.PROJECT_NAME
           role == RoleName(name)
           haveRole == failed # "get-role" /\ role \in codebuild.roles
           roles1 == IF haveRole \/ failed = "create-role" THEN codebuild.roles
                     ELSE codebuild.roles \cup {role}
           bucket == NewBucketName(sh.ENVIRONMENT, hist.run)
           buckets1 == IF failed = "s3 mb" \/ bucket \in DOMAIN codebuild.buckets
                       THEN codebuild.buckets
                       ELSE (bucket :> << >>) @@ codebuild.buckets
           cmds == (IF haveRole THEN << "get-role" >>
                    ELSE << "get-role", "create-role", "attach-role-policy" >>)
                   \o << "s3 mb", "s3 cp source.zip", "create-project" >>
           bad == {failed}
                  \cup (IF role \notin codebuild.roles THEN {"get-role"} ELSE {})
                  \cup (IF role \in codebuild.roles THEN {"create-role"} ELSE {})
                  \cup (IF role \notin roles1 THEN {"attach-role-policy"} ELSE {})
                  \cup (IF bucket \in DOMAIN codebuild.buckets THEN {"s3 mb"} ELSE {})
                  \cup (IF bucket \notin DOMAIN buckets1 THEN {"s3 cp source.zip"} ELSE {})
                  \cup (IF name \in DOMAIN codebuild.projects THEN {"create-project"} ELSE {})
           r == RunCommands(variant, cmds, bad, log, hist)
           ran(c) == \E i \in (Len(log) + 1)..Len(r.log) : r.log[i] = c
           buckets2 == IF ran("s3 cp source.zip") /\ "s3 cp source.zip" \notin bad
                       THEN [buckets1 EXCEPT ![bucket] = ("source.zip" :> hist.run) @@ @]
                       ELSE buckets1
           projects1 == IF ran("create-project") /\ "create-project" \notin bad
                        THEN (name :> [location |-> bucket \o "/source.zip",
                                       serviceRole |-> role]) @@ codebuild.projects
                        ELSE codebuild.projects
       IN  /\ log' = r.log
           /\ hist' = r.hist
           /\ sh' = IF ran("s3 mb") THEN [sh EXCEPT !.BUCKET_NAME = bucket] ELSE sh
           /\ codebuild' = [codebuild EXCEPT
                              !.roles = IF ran("create-role") THEN roles1 ELSE @,
                              !.buckets = IF ran("s3 mb") THEN buckets2 ELSE @,
                              !.projects = projects1]
           /\ IF r.ok
              THEN /\ pc' = "upload"
                   /\ UNCHANGED exitCode
              ELSE Exit(FailCode("aws"))
  /\ UNCHANGED << inputs, cwd, dirs, stacks, images, probe, deploys, poll, printed >>

\* BUCKET_NAME=$(aws codebuild batch-get-projects ... | cut -d'/' -f3);
\* if non-empty and not None: s3 cp source.zip, s3 cp buildspec.yml
UploadSource ==
  /\ pc = "upload"
  /\ \E ok \in BOOLEAN, cpOk \in BOOLEAN :
       LET name == sh.PROJECT_NAME
           location == IF ~ok THEN ""
                       ELSE IF name \in DOMAIN codebuild.projects
                       THEN codebuild.projects[name].location
                       ELSE "None"
           bucket == Cut(location, "/", 3)
           lg1 == Append(log, "batch-get-projects")
           h1 == IF ok THEN hist ELSE Failed(hist, "batch-get-projects", lg1)
       IN  /\ sh' = [sh EXCEPT !.BUCKET_NAME = bucket]
           /\ IF bucket # "" /\ bucket # "None"
              THEN IF cpOk /\ bucket \in DOMAIN codebuild.buckets
                   THEN /\ log' = lg1 \o << "s3 cp source.zip", "s3 cp buildspec.yml" >>
                        /\ codebuild' =
                             [codebuild EXCEPT !.buckets[bucket] =
                                ("source.zip" :> hist.run) @@
                                ("buildspec.yml" :> hist.run) @@ @]
                        /\ pc' = "start_build"
                        /\ hist' = h1
                        /\ UNCHANGED exitCode
                   ELSE /\ log' = Append(lg1, "s3 cp source.zip")
                        /\ Exit(FailCode("aws"))
                        /\ hist' = Failed(h1, "s3 cp source.zip", log')
                        /\ UNCHANGED codebuild
              ELSE /\ log' = lg1
                   /\ pc' = "start_build"
                   /\ hist' = h1
                   /\ UNCHANGED << exitCode, codebuild >>
  /\ UNCHANGED << inputs, cwd, dirs, stacks, images, probe, deploys, poll, printed >>

\* the run whose upload is the archive the project name builds from; -1 without one
ArchiveOf(cb, name) ==
  LET bucket == FieldOf(cb.projects[name].location, "/", 1)
      key == FieldOf(cb.projects[name].location, "/", 2)
  IN  IF bucket \in DOMAIN cb.buckets /\ key \in DOMAIN cb.buckets[bucket]
      THEN cb.buckets[bucket][key]
      ELSE -1

\* BUILD_ID=$(aws codebuild start-build --project-name $PROJECT_NAME ...)
StartBuild ==
  /\ pc = "start_build"
  /\ log' = Append(log, "start-build")
  /\ \E ok \in BOOLEAN :
       IF ok /\ sh.PROJECT_NAME \in DOMAIN codebuild.projects
       THEN /\ sh' = [sh EXCEPT !.BUILD_ID = sh.PROJECT_NAME \o ":build-" \o Digit(hist.run)]
            /\ codebuild' =
                 [codebuild EXCEPT !.builds =
                    Append(@, [ project |-> sh.PROJECT_NAME, run |-> hist.run,
                                archive |-> ArchiveOf(codebuild, sh.PROJECT_NAME) ])]
            /\ pc' = "poll_query"
            /\ UNCHANGED << exitCode, hist >>
       ELSE /\ Abort("start-build", "aws", log')
            /\ UNCHANGED << sh, codebuild >>
  /\ UNCHANGED << inputs, cwd, dirs, stacks, images, probe, deploys, poll, printed >>

\* BUILD_STATUS=$(aws codebuild batch-get-builds --ids $BUILD_ID ...); a build that
\* reports SUCCEEDED has pushed $REPOSITORY_URI:latest in its post_build phase
PollQuery ==
  /\ pc = "poll_query"
  /\ Len(statusLog) < MaxPolls
  /\ log' = Append(log, "batch-get-builds")
  /\ \E ok \in BOOLEAN, status \in BuildStatuses :
       IF ok
       THEN /\ sh' = [sh EXCEPT !.BUILD_STATUS = status]
            /\ statusLog' = Append(statusLog, status)
            /\ images' = IF status = "SUCCEEDED"
                         THEN images \cup {sh.REPOSITORY_URI \o ":latest"}
                         ELSE images
            /\ pc' = "poll_check"
            /\ UNCHANGED << exitCode, hist >>
       ELSE /\ Abort("batch-get-builds", "aws", log')
            /\ UNCHANGED << sh, statusLog, images >>
  /\ UNCHANGED << inputs, cwd, dirs, stacks, codebuild, probe, deploys, sleeps, waited,
                  printed >>

\* a loop body that gives up on every status other than SUCCEEDED
PollOutcomeNoWait(status) ==
  IF status = "SUCCEEDED" THEN "break" ELSE "abort"

\* the elif without STOPPED
PollOutcomeNoStopped(status) ==
  IF status = "SUCCEEDED" THEN "break"
  ELSE IF status = "FAILED" \/ status = "FAULT" \/ status = "TIMED_OUT"
  THEN "abort"
  ELSE "sleep"

\* a loop that only waits while the build is in progress
PollOutcomeBreakOnFailure(status) ==
  IF status = "IN_PROGRESS" THEN "sleep" ELSE "break"

\* the if comparing with a status the service never reports
PollOutcomeMisspelled(status) ==
  IF status = "SUCCESS" THEN "break"
  ELSE IF status = "FAILED" \/ status = "FAULT" \/ status = "TIMED_OUT"
          \/ status = "STOPPED"
  THEN "abort"
  ELSE "sleep"

\* the if / elif of the loop body: break, exit 1, or fall through to the sleep
PollOutcome(status) ==
  IF status = "SUCCEEDED" THEN "break"
  ELSE IF status = "FAILED" \/ status = "FAULT" \/ status = "TIMED_OUT"
          \/ status = "STOPPED"
  THEN "abort"
  ELSE "sleep"

PollCheck ==
  /\ pc = "poll_check"
  /\ LET o == PollOutcome(sh.BUILD_STATUS)
     IN  IF o = "abort"
         THEN Exit(1)
         ELSE /\ pc' = IF o = "break" THEN "cleanup" ELSE "poll_sleep"
              /\ UNCHANGED exitCode
  /\ UNCHANGED << inputs, cwd, dirs, sh, cloud, log, probe, deploys, poll, printed, hist >>

\* sleep 10, then the next iteration of `while true`
PollSleep ==
  /\ pc = "poll_sleep"
  /\ sleeps' = sleeps + 1
  /\ waited' = waited + PollInterval
  /\ pc' = "poll_query"
  /\ UNCHANGED << inputs, exitCode, cwd, dirs, sh, cloud, log, probe, deploys, statusLog,
                  printed, hist >>

\* the cleanup without its `rm -rf`
CleanupNoRemove ==
  /\ pc = "cleanup"
  /\ cwd' = ParentDir(cwd)
  /\ log' = Append(log, "rm -rf TEMP_DIR")
  /\ hist' = [hist EXCEPT !.published = TRUE]
  /\ pc' = "deploy"
  /\ UNCHANGED << inputs, exitCode, dirs, sh, cloud, probe, deploys, poll, printed >>

\* cd ..; rm -rf "$TEMP_DIR"
Cleanup ==
  /\ pc = "cleanup"
  /\ cwd' = ParentDir(cwd)
  /\ dirs' = dirs \ {sh.TEMP_DIR}
  /\ log' = Append(log, "rm -rf TEMP_DIR")
  /\ hist' = [hist EXCEPT !.published = TRUE]
  /\ pc' = "deploy"
  /\ UNCHANGED << inputs, exitCode, sh, cloud, probe, deploys, poll, printed >>

\* ------------------------------------------ full deployment and the report

\* cd ../infra (deploy.sh) or cd infra (deploy-no-docker.sh);
\* cdk deploy --context environment=$ENVIRONMENT
FullDeployment ==
  /\ pc = "deploy"
  /\ LET target == ResolvePath(cwd, IF variant = "deploy.sh" THEN "../infra" ELSE "infra")
     IN  IF target \notin dirs
         THEN /\ Abort("cd", "cd", log)
              /\ UNCHANGED << cwd, stacks, log, deploys >>
         ELSE /\ cwd' = target
              /\ CdkDeploy(Context(sh.ENVIRONMENT, Undefined), target, "cdk deploy",
                           "get_url")
  /\ UNCHANGED << inputs, dirs, sh, images, codebuild, probe, poll, printed >>

\* what the query for the ServiceUrl output yielded
UrlQueryKind(r) ==
  IF ~r.ok THEN "failed"
  ELSE IF StripTrailingNewlines(r.out) = "" THEN "absent"
  ELSE IF StripTrailingNewlines(r.out) = "None" THEN "none"
  ELSE "value"

\* SERVICE_URL=$(... || echo "") with the error stream of the query discarded
CaptureServiceUrlStdout(r) == IF r.ok THEN StripTrailingNewlines(r.out) ELSE ""

\* SERVICE_URL=$(aws cloudformation describe-stacks ... 2>&1 || echo "")
CaptureServiceUrl(r) == CaptureOr(r, "")

GetServiceUrl ==
  /\ pc = "get_url"
  /\ log' = Append(log, "describe-stacks ServiceUrl")
  /\ \E ok \in BOOLEAN :
       LET r == IF ok /\ sh.STACK_NAME \in DOMAIN stacks
                THEN [ok |-> TRUE,
                      out |-> QueryOutput(stacks[sh.STACK_NAME], sh.STACK_NAME, "ServiceUrl")
                                \o "\n"]
                ELSE [ok |-> FALSE,
                      out |-> "An error occurred (AccessDenied) when calling the DescribeStacks operation\n"]
       IN  IF r.ok \/ Guarded(variant, "describe-stacks ServiceUrl")
           THEN /\ sh' = [sh EXCEPT !.SERVICE_URL = CaptureServiceUrl(r)]
                /\ hist' = [(IF r.ok THEN hist
                             ELSE Failed(hist, "describe-stacks ServiceUrl", log'))
                            EXCEPT !.urlQuery = UrlQueryKind(r)]
                /\ pc' = "report"
                /\ UNCHANGED exitCode
           ELSE /\ Abort("describe-stacks ServiceUrl", "aws", log')
                /\ UNCHANGED sh
  /\ UNCHANGED << inputs, cwd, dirs, cloud, probe, deploys, poll, printed >>

\* the echo lines after the full deployment; the script then ends with status 0
Report ==
  /\ pc = "report"
  /\ printed' =
       IF sh.SERVICE_URL # "" /\ sh.SERVICE_URL # "None"
       THEN << "Deployment complete!", "Service URL: " \o sh.SERVICE_URL,
               "  curl " \o sh.SERVICE_URL \o "/health" >>
       ELSE << "Deployment complete!",
               "Note: Service URL not available yet. Check AWS Console for status." >>
  /\ Exit(0)
  /\ UNCHANGED << inputs, cwd, dirs, sh, cloud, log, probe, deploys, poll, hist >>

Next ==
  \/ ResolveEnvironment
  \/ CheckAwsCli
  \/ CheckDocker
  \/ InstallCdk
  \/ InstallDeps
  \/ CdkBootstrap
  \/ ProbeStack
  \/ FirstDeployment
  \/ GetRepositoryUri
  \/ DockerBuild
  \/ EcrLogin
  \/ DockerTag
  \/ DockerPush
  \/ Package
  \/ CheckProject
  \/ CreateProject
  \/ UploadSource
  \/ StartBuild
  \/ PollQuery
  \/ PollCheck
  \/ PollSleep
  \/ Cleanup
  \/ FullDeployment
  \/ GetServiceUrl
  \/ Report

Spec == Init /\ [][Next]_vars

\* ------------------------------------- the convergence tool run by hand

\* values of `--context key=value` options; Undefined when the option is not given
ContextEnvironments == {Undefined, "dev", "prod", "staging", "preview-bob"}
ContextCreateService == {Undefined, "false", "true"}
SecretArn == "arn:aws:secretsmanager:us-east-1:123456789012:secret:FastApiSample/mysql-AbCdEf"
ContextSecretsArn == {Undefined, "", SecretArn}
ContextPipelineOnly == {Undefined, "true"}
ContextCodeConnectionArn ==
  {Undefined, "arn:aws:codeconnections:us-east-1:123456789012:connection/1"}

CdkContexts ==
  [ environment : ContextEnvironments, createService : ContextCreateService,
    secretsArn : ContextSecretsArn, pipelineOnly : ContextPipelineOnly,
    codeConnectionArn : ContextCodeConnectionArn ]

\* a shell in infra/ with nothing deployed
CdkInit ==
  /\ variant = "deploy.sh"
  /\ arg1 = ""
  /\ whoami \in WhoamiOutcomes
  /\ other = NoRun
  /\ pipeline = NoExecutions
  /\ pc = "shell"
  /\ exitCode = 0
  /\ cwd = InfraDir
  /\ sh = InitialShell
  /\ log = << >>
  /\ probe = [ok |-> TRUE, kind |-> "none", out |-> ""]
  /\ deploys = << >>
  /\ statusLog = << >>
  /\ sleeps = 0
  /\ waited = 0
  /\ printed = << >>
  /\ hist = InitialHistory(1)
  /\ dirs = {"/", RepoRoot, InfraDir, AppDir, TmpRoot}
  /\ stacks = << >>
  /\ images = {}
  /\ codebuild = NoProjects

\* cdk synth --context ...: bin/app.ts declares the stacks for the context
CdkSynth ==
  /\ pc = "shell"
  /\ \E ctx \in CdkContexts :
       deploys' = Append(deploys, [ctx |-> ctx, decl |-> CdkApp(ctx, ProcessEnv)])
  /\ log' = Append(log, "cdk synth")
  /\ pc' = "synthesized"
  /\ UNCHANGED << inputs, exitCode, cwd, dirs, sh, cloud, probe, poll, printed, hist >>

\* cdk deploy --context ... with the same options: the declared stacks are converged
CdkDeployByHand ==
  /\ pc = "synthesized"
  /\ log' = Append(log, "cdk deploy")
  /\ \E ok \in BOOLEAN :
       IF ok
       THEN /\ stacks' = Converge(stacks, deploys[Len(deploys)].decl)
            /\ Exit(0)
            /\ UNCHANGED hist
       ELSE /\ Abort("cdk deploy", "cdk", log')
            /\ UNCHANGED stacks
  /\ UNCHANGED << inputs, cwd, dirs, sh, images, codebuild, probe, deploys, poll, printed >>

CdkNext ==
  \/ CdkSynth
  \/ CdkDeployByHand

CdkSpec == CdkInit /\ [][CdkNext]_vars

\* ------------------------------------------------ one run after another

\* runs of deploy-no-docker.sh for one environment that the model follows
MaxRuns == 2

\* the first of the runs, with no project, role or bucket yet
SeqInit ==
  /\ variant = "deploy-no-docker.sh"
  /\ arg1 \in {"dev", "preview-bob"}
  /\ whoami \in {w \in WhoamiOutcomes : w.ok}
  /\ other = NoRun
  /\ pipeline = NoExecutions
  /\ FreshRun(1)
  /\ dirs = {"/", RepoRoot, InfraDir, AppDir, TmpRoot}
  /\ \E e \in EarlierStates(StackName(arg1)) :
       /\ stacks = e.st
       /\ images = e.im
  /\ codebuild = NoProjects

\* the script is started again once the run before it has ended or has submitted
\* its build: a new shell in the repository, the cloud and the files as they are
NextRun ==
  /\ pc \in {"done", "poll_query"}
  /\ hist.run < MaxRuns
  /\ pc' = "start"
  /\ exitCode' = 0
  /\ cwd' = RepoRoot
  /\ sh' = InitialShell
  /\ log' = << >>
  /\ probe' = [ok |-> TRUE, kind |-> "none", out |-> ""]
  /\ deploys' = << >>
  /\ printed' = << >>
  /\ hist' = InitialHistory(hist.run + 1)
  /\ UNCHANGED << inputs, dirs, cloud, poll >>

\* the steps of deploy-no-docker.sh up to the submission of the build
SeqNext ==
  \/ ResolveEnvironment
  \/ CheckAwsCli
  \/ InstallCdk
  \/ InstallDeps
  \/ CdkBootstrap
  \/ ProbeStack
  \/ FirstDeployment
  \/ GetRepositoryUri
  \/ Package
  \/ CheckProject
  \/ CreateProject
  \/ UploadSource
  \/ StartBuild
  \/ NextRun

SeqSpec == SeqInit /\ [][SeqNext]_vars

\* ------------------------------------------------ two runs at the same time

\* the shell state of the executing run, as kept while the other run executes
Suspended ==
  [ active |-> TRUE, pc |-> pc, exitCode |-> exitCode, cwd |-> cwd, sh |-> sh,
    log |-> log, probe |-> probe, deploys |-> deploys, statusLog |-> statusLog,
    sleeps |-> sleeps, waited |-> waited, printed |-> printed, hist |-> hist ]

\* the shell of the run number n of deploy-no-docker.sh for the environment, about
\* to probe the stack: the checks, the installs and `cdk bootstrap` have succeeded
AtProbe(environment, n) ==
  [ active |-> TRUE, pc |-> "probe", exitCode |-> 0, cwd |-> InfraDir,
    sh |-> [InitialShell EXCEPT !.ENVIRONMENT = environment,
                                !.STACK_NAME = StackName(environment)],
    log |-> << "npm install", "npm run build", "cdk bootstrap" >>,
    probe |-> [ok |-> TRUE, kind |-> "none", out |-> ""],
    deploys |-> << >>, statusLog |-> << >>, sleeps |-> 0, waited |-> 0,
    printed |-> << >>, hist |-> InitialHistory(n) ]

\* two invocations of deploy-no-docker.sh for the same environment, both about to
\* probe the stack, with nothing deployed yet
RaceInit ==
  /\ variant = "deploy-no-docker.sh"
  /\ arg1 \in {"dev", "preview-bob"}
  /\ whoami \in {w \in WhoamiOutcomes : w.ok}
  /\ pc = AtProbe(arg1, 1).pc
  /\ exitCode = AtProbe(arg1, 1).exitCode
  /\ cwd = AtProbe(arg1, 1).cwd
  /\ sh = AtProbe(arg1, 1).sh
  /\ log = AtProbe(arg1, 1).log
  /\ probe = AtProbe(arg1, 1).probe
  /\ deploys = AtProbe(arg1, 1).deploys
  /\ statusLog = AtProbe(arg1, 1).statusLog
  /\ sleeps = AtProbe(arg1, 1).sleeps
  /\ waited = AtProbe(arg1, 1).waited
  /\ printed = AtProbe(arg1, 1).printed
  /\ hist = AtProbe(arg1, 1).hist
  /\ other = AtProbe(arg1, 2)
  /\ pipeline = NoExecutions
  /\ dirs = {"/", RepoRoot, InfraDir, AppDir, TmpRoot}
  /\ stacks = << >>
  /\ images = {}
  /\ codebuild = NoProjects

\* the scheduler lets the other run execute: the two shells change places, the
\* cloud and the files are shared
Switch ==
  /\ other.active
  /\ other' = Suspended
  /\ pc' = other.pc
  /\ exitCode' = other.exitCode
  /\ cwd' = other.cwd
  /\ sh' = other.sh
  /\ log' = other.log
  /\ probe' = other.probe
  /\ deploys' = other.deploys
  /\ statusLog' = other.statusLog
  /\ sleeps' = other.sleeps
  /\ waited' = other.waited
  /\ printed' = other.printed
  /\ hist' = other.hist
  /\ UNCHANGED << variant, arg1, whoami, pipeline, dirs, cloud >>

\* the steps of the two runs from the probe to the creation of the build project,
\* interleaved
RaceNext ==
  \/ ProbeStack
  \/ FirstDeployment
  \/ GetRepositoryUri
  \/ Package
  \/ CheckProject
  \/ CreateProject
  \/ Switch

RaceSpec == RaceInit /\ [][RaceNext]_vars

\* ------------------------------------------------ the polling loop without end

\* a run of deploy-no-docker.sh for an environment whose registry holds an image
LiveInit ==
  /\ variant = "deploy-no-docker.sh"
  /\ arg1 = "dev"
  /\ whoami \in {w \in WhoamiOutcomes : w.ok}
  /\ other = NoRun
  /\ pipeline = NoExecutions
  /\ FreshRun(1)
  /\ dirs = {"/", RepoRoot, InfraDir, AppDir, TmpRoot}
  /\ stacks = (StackName(arg1) :> [resources |-> {"Repository"},
                                   outputs |-> {"RepositoryUri"}])
  /\ images = {RepositoryUri(StackName(arg1)) \o ":latest"}
  /\ codebuild \in EarlierProjects(variant, arg1)

\* `while true` has no counter: once MaxPolls iterations are on record the loop
\* goes on all the same; the record of those iterations is dropped
ForgetPolls ==
  /\ pc = "poll_query"
  /\ Len(statusLog) = MaxPolls
  /\ statusLog' = << >>
  /\ sleeps' = 0
  /\ waited' = 0
  /\ log' = SubSeq(log, 1, Len(log) - MaxPolls)
  /\ hist' = [hist EXCEPT !.beyond = TRUE]
  /\ UNCHANGED << inputs, pc, exitCode, cwd, dirs, sh, cloud, probe, deploys, printed >>

\* the steps of deploy-no-docker.sh, the loop unbounded
LiveNext ==
  \/ ResolveEnvironment
  \/ CheckAwsCli
  \/ InstallCdk
  \/ InstallDeps
  \/ CdkBootstrap
  \/ ProbeStack
  \/ FirstDeployment
  \/ GetRepositoryUri
  \/ Package
  \/ CheckProject
  \/ CreateProject
  \/ UploadSource
  \/ StartBuild
  \/ PollQuery
  \/ PollCheck
  \/ PollSleep
  \/ ForgetPolls
  \/ Cleanup
  \/ FullDeployment

\* every command of the loop and after it returns: from the first query on, the
\* script always takes its next step
LiveSpec ==
  /\ LiveInit
  /\ [][LiveNext]_vars
  /\ WF_vars(PollQuery)
  /\ WF_vars(PollCheck)
  /\ WF_vars(PollSleep)
  /\ WF_vars(ForgetPolls)
  /\ WF_vars(Cleanup)
  /\ WF_vars(FullDeployment)


\* ------------------------------------------------ executions of the pipeline

\* executions of the pipeline that the model follows
MaxExecutions == 2

\* what a script run would touch: nothing of it moves while the pipeline executes
script == << variant, arg1, whoami, other, pc, exitCode, cwd, dirs, sh, cloud, log,
             probe, deploys, poll, printed, hist >>

\* the pipeline stack is deployed, nothing has been pushed to the branch yet
PipeInit ==
  /\ variant = "deploy.sh"
  /\ arg1 = ""
  /\ whoami \in {w \in WhoamiOutcomes : w.ok}
  /\ other = NoRun
  /\ pipeline = NoExecutions
  /\ FreshRun(1)
  /\ dirs = {"/", RepoRoot, InfraDir, AppDir, TmpRoot}
  /\ stacks = << >>
  /\ images = {}
  /\ codebuild = NoProjects

\* the stage holds an execution whose actions have not all finished
Occupied(k) ==
  \E e \in 1..Len(pipeline) :
    /\ pipeline[e].stage = k
    /\ pipeline[e].status = "InProgress"
    /\ ~pipeline[e].waiting

\* the executions other than e that wait after stage k give way to e
Supersede(p, e, k) ==
  [i \in 1..Len(p) |->
     IF i # e /\ p[i].status = "InProgress" /\ p[i].waiting /\ p[i].stage = k
     THEN [p[i] EXCEPT !.status = "Superseded"]
     ELSE p[i]]

\* triggerOnPush: a push to the branch starts an execution
StartExecution ==
  /\ Len(pipeline) < MaxExecutions
  /\ pipeline' = Append(Supersede(pipeline, 0, 0), NewExecution)
  /\ UNCHANGED script

\* the execution enters the stage declared after the one it has finished, once
\* that stage is free, and all the actions of the stage start
EnterStage(e) ==
  /\ pipeline[e].status = "InProgress"
  /\ pipeline[e].waiting
  /\ pipeline[e].stage < Len(Stages)
  /\ ~Occupied(pipeline[e].stage + 1)
  /\ LET k == pipeline[e].stage + 1 IN
       pipeline' =
         [pipeline EXCEPT ![e] =
            [stage |-> k, status |-> "InProgress", waiting |-> FALSE,
             actions |-> [a \in ActionNames |->
                            IF a \in Stages[k].actions THEN "running"
                            ELSE pipeline[e].actions[a]]]]
  /\ UNCHANGED script

\* an action of the stage the execution is in ends, well or badly (an approval
\* is granted or rejected); when it is the last of the stage to end, the
\* execution has failed if any of them failed, has succeeded if the stage is the
\* last one, and otherwise waits for the next stage
FinishAction(e, a, ok) ==
  /\ pipeline[e].status = "InProgress"
  /\ ~pipeline[e].waiting
  /\ a \in Stages[pipeline[e].stage].actions
  /\ pipeline[e].actions[a] = "running"
  /\ LET k == pipeline[e].stage
         acts == [pipeline[e].actions EXCEPT ![a] = IF ok THEN "succeeded" ELSE "failed"]
         ended == \A b \in Stages[k].actions : acts[b] # "running"
         bad == \E b \in Stages[k].actions : acts[b] = "failed"
         after == [pipeline EXCEPT ![e] =
                     [stage |-> k,
                      status |-> IF ~ended THEN "InProgress"
                                 ELSE IF bad THEN "Failed"
                                 ELSE IF k = Len(Stages) THEN "Succeeded"
                                 ELSE "InProgress",
                      waiting |-> ended /\ ~bad /\ k < Len(Stages),
                      actions |-> acts]]
     IN pipeline' = IF ended /\ ~bad /\ k < Len(Stages)
                    THEN Supersede(after, e, k)
                    ELSE after
  /\ UNCHANGED script

PipeNext ==
  \/ StartExecution
  \/ \E e \in 1..Len(pipeline) : EnterStage(e)
  \/ \E e \in 1..Len(pipeline), a \in ActionNames, ok \in BOOLEAN : FinishAction(e, a, ok)

PipeSpec == PipeInit /\ [][PipeNext]_vars
\* ------------------------------------------------------------- properties

Count(seq, x) == Cardinality({i \in 1..Len(seq) : seq[i] = x})

Last(seq) == seq[Len(seq)]

BootstrapInvoked == Count(log, "cdk deploy createService=false") > 0

PublisherCommands ==
  { "docker build", "docker login", "docker tag", "docker push", "package source",
    "list-projects", "get-role", "create-role", "attach-role-policy", "s3 mb", "s3 cp source.zip",
    "s3 cp buildspec.yml", "create-project", "batch-get-projects", "start-build",
    "batch-get-builds", "rm -rf TEMP_DIR" }

PublisherStarted == \E i \in 1..Len(log) : log[i] \in PublisherCommands

\* C1: in every reachable state, a stack that holds the hosting service also holds
\* the registry, and an image has been pushed to that registry.
C1_ServiceOnlyAfterImage ==
  \A n \in DOMAIN stacks :
    "Service" \in stacks[n].resources =>
      /\ "Repository" \in stacks[n].resources
      /\ (RepositoryUri(n) \o ":latest") \in images

\* C2: the bootstrap convergence (createService=false) has been invoked only after a
\* probe that failed with a "does not exist" message or with no output at all, and
\* once the script is past the branch it has been invoked after every such probe;
\* a successful description and any other error never lead to it.
C2_BootstrapIffNotFound ==
  /\ BootstrapInvoked => probe.kind \in {"not_found", "empty_error"}
  /\ (probe.kind \in {"not_found", "empty_error"} /\ pc # "first_deploy")
       => BootstrapInvoked
  /\ (probe.kind \in {"exists", "other_error"}) => ~BootstrapInvoked

C2_Witness ==
  /\ BootstrapInvoked
  /\ probe.kind = "not_found"
  /\ Contains(sh.STACK_EXISTS, "does not exist")
  /\ pc = "get_uri"

\* C3: a run that has ended has invoked the full deployment exactly once, for its
\* environment and without createService=false, if its image publisher finished,
\* and not at all otherwise.
C3_FullDeployOncePerPublish ==
  pc = "done" =>
    IF hist.published
    THEN /\ Count(log, "cdk deploy") = 1
         /\ Last(deploys).ctx.environment = sh.ENVIRONMENT
         /\ Last(deploys).ctx.createService # "false"
    ELSE Count(log, "cdk deploy") = 0

\* C4 as stated: the loop is left exactly on SUCCEEDED, FAILED, FAULTED, TIMED_OUT,
\* STOPPED; on any other status the script sleeps 10 and then queries again.
C4_LeavesOnClaimedStatuses ==
  [][ /\ pc = "poll_check" =>
           IF sh.BUILD_STATUS \in {"SUCCEEDED", "FAILED", "FAULTED", "TIMED_OUT", "STOPPED"}
           THEN pc' \in {"cleanup", "done"}
           ELSE pc' = "poll_sleep"
      /\ pc = "poll_sleep" => (pc' = "poll_query" /\ waited' = waited + 10) ]_vars

\* C4 amended: the loop is left exactly on SUCCEEDED, FAILED, FAULT, TIMED_OUT,
\* STOPPED; on any other status (FAULTED included) the script sleeps 10 and then
\* queries again.
C4_LeavesOnCodeStatuses ==
  [][ /\ pc = "poll_check" =>
           IF sh.BUILD_STATUS \in {"SUCCEEDED", "FAILED", "FAULT", "TIMED_OUT", "STOPPED"}
           THEN pc' \in {"cleanup", "done"}
           ELSE pc' = "poll_sleep"
      /\ pc = "poll_sleep" => (pc' = "poll_query" /\ waited' = waited + 10) ]_vars

C4_Witness ==
  /\ statusLog = << "FAULTED", "FAULT" >>
  /\ sleeps = 1
  /\ pc = "done"
  /\ exitCode = 1

\* C5 as stated: once the loop has seen FAILED, FAULTED, TIMED_OUT or STOPPED the
\* run has ended with a non-zero status, has started the build once, and has neither
\* invoked the full deployment nor printed the report.
C5_AbortsOnClaimedFailures ==
  (/\ statusLog # << >>
   /\ Last(statusLog) \in {"FAILED", "FAULTED", "TIMED_OUT", "STOPPED"}
   /\ pc # "poll_check")
    => /\ pc = "done"
       /\ exitCode # 0
       /\ Count(log, "start-build") = 1
       /\ Count(log, "cdk deploy") = 0
       /\ printed = << >>

\* C5 amended: once the loop has seen FAILED, FAULT, TIMED_OUT or STOPPED the run has
\* ended with a non-zero status, has started the build once, and has neither invoked
\* the full deployment nor printed the report.
C5_AbortsOnCodeFailures ==
  (/\ statusLog # << >>
   /\ Last(statusLog) \in {"FAILED", "FAULT", "TIMED_OUT", "STOPPED"}
   /\ pc # "poll_check")
    => /\ pc = "done"
       /\ exitCode # 0
       /\ Count(log, "start-build") = 1
       /\ Count(log, "cdk deploy") = 0
       /\ printed = << >>

C5_Witness ==
  /\ statusLog = << "IN_PROGRESS", "TIMED_OUT" >>
  /\ pc = "done"
  /\ exitCode = 1
  /\ Count(log, "start-build") = 1

\* statuses on which the loop goes on
NonTerminal(status) ==
  status \notin {"SUCCEEDED", "FAILED", "FAULT", "TIMED_OUT", "STOPPED"}

\* C6: when the statuses returned are n non-terminal ones followed by SUCCEEDED, the
\* script has made n+1 queries and n sleeps of 10 and is past the loop.
C6_QueriesAndSleeps ==
  (/\ statusLog # << >>
   /\ Last(statusLog) = "SUCCEEDED"
   /\ \A i \in 1..(Len(statusLog) - 1) : NonTerminal(statusLog[i])
   /\ pc # "poll_check")
    => /\ pc \in {"cleanup", "deploy", "done"}
       /\ Count(log, "batch-get-builds") = Len(statusLog)
       /\ sleeps = Len(statusLog) - 1
       /\ waited = 10 * sleeps

C6_Witness ==
  /\ statusLog = << "IN_PROGRESS", "IN_PROGRESS", "SUCCEEDED" >>
  /\ Count(log, "batch-get-builds") = 3
  /\ sleeps = 2
  /\ pc = "cleanup"

\* C7: without an explicit argument the environment the script resolves, and the
\* default of the CDK app, is "preview-" followed by the user name when whoami
\* succeeds and "preview-local" when it fails, and is never empty.
C7_DefaultEnvironment ==
  (arg1 = "" /\ pc # "start") =>
    LET expected == IF whoami.ok THEN "preview-" \o Trim(whoami.out) ELSE "preview-local"
    IN  /\ sh.ENVIRONMENT = expected
        /\ getDefaultEnvironment(ProcessEnv) = expected
        /\ sh.ENVIRONMENT # ""

\* C8: every convergence run with createService=false declares the deployment unit
\* of its environment with the registry and its output only.
C8_BootstrapDeclaresRegistryOnly ==
  \A i \in 1..Len(deploys) :
    deploys[i].ctx.createService = "false" =>
      /\ \E d \in deploys[i].decl : d.id = StackName(deploys[i].ctx.environment)
      /\ \A d \in deploys[i].decl :
           /\ d.resources = {"Repository"}
           /\ d.outputs = {"RepositoryUri"}

\* C9: every convergence of a run declares exactly one deployment unit, named
\* "FastApiRunner-" followed by the run's environment, the name the script probes.
C9_DeclaresOnlyOwnStack ==
  \A i \in 1..Len(deploys) :
    /\ {d.id : d \in deploys[i].decl} = {"FastApiRunner-" \o sh.ENVIRONMENT}
    /\ sh.STACK_NAME = "FastApiRunner-" \o sh.ENVIRONMENT

\* C10: no publisher command has run unless the registry URI read is neither empty
\* nor "None"; when the URI read is empty or "None" the run has ended with status 1
\* with no publisher command and no full deployment.
C10_PublisherNeedsUri ==
  /\ PublisherStarted => (hist.uriRead /\ sh.REPOSITORY_URI \notin {"", "None"})
  /\ (hist.uriRead /\ sh.REPOSITORY_URI \in {"", "None"})
       => /\ pc = "done"
          /\ exitCode = 1
          /\ ~PublisherStarted
          /\ Count(log, "cdk deploy") = 0

C10_Witness ==
  /\ hist.uriRead
  /\ sh.REPOSITORY_URI = "None"
  /\ pc = "done"
  /\ exitCode = 1

\* the commands of the run that failed
FailedCommands == {hist.failures[i].cmd : i \in 1..Len(hist.failures)}

\* C11: when the identity check or, in deploy.sh, the docker check has failed, the
\* run has ended with a non-zero status and without any side effect: no command
\* that installs, bootstraps, probes, converges or publishes has run, nothing was
\* declared, and no directory was created.
C11_PreflightFailureHasNoEffect ==
  (FailedCommands \cap {"aws sts get-caller-identity", "docker info"} # {})
    => /\ pc = "done"
       /\ exitCode # 0
       /\ log = << >>
       /\ deploys = << >>
       /\ dirs = {"/", RepoRoot, InfraDir, AppDir, TmpRoot}
       /\ printed = << >>

C11_Witness ==
  /\ variant = "deploy.sh"
  /\ "docker info" \in FailedCommands
  /\ pc = "done"
  /\ exitCode = 1

EndpointPrinted == \E i \in 1..Len(printed) : StartsWith(printed[i], "Service URL: ")
HealthCheckPrinted == \E i \in 1..Len(printed) : StartsWith(printed[i], "  curl ")
NotePrinted == \E i \in 1..Len(printed) : StartsWith(printed[i], "Note: Service URL not available yet")

\* C12: once the reporter has printed, the run has ended with status 0; the endpoint
\* and the health-check command are printed exactly when the endpoint query yielded
\* an endpoint value; when the value is absent, is "None", or the query failed,
\* only the 'not available yet' note is printed.
C12_ReportsEndpointIffValue ==
  printed # << >> =>
    /\ pc = "done"
    /\ exitCode = 0
    /\ IF hist.urlQuery = "value"
       THEN EndpointPrinted /\ HealthCheckPrinted /\ ~NotePrinted
       ELSE NotePrinted /\ ~EndpointPrinted /\ ~HealthCheckPrinted

\* a failure that ended the run: nothing ran and nothing was printed after it
EndedRun(i) ==
  /\ pc = "done"
  /\ exitCode # 0
  /\ i = Len(hist.failures)
  /\ hist.failures[i].at = Len(log)
  /\ printed = << >>

GuardedInScript(cmd) ==
  \/ cmd \in {"describe-stacks", "describe-stacks ServiceUrl"}
  \/ /\ variant = "deploy-no-docker.sh"
     /\ cmd \in {"cdk bootstrap", "cp -r infra", "list-projects", "get-role",
                 "create-role", "s3 mb", "create-project", "batch-get-projects"}

C17_TempDirGoneAtExit ==
  (pc = "done" /\ sh.TEMP_DIR # "") => sh.TEMP_DIR \notin dirs

\* C17: when the run has ended, the packaging directory it created no longer exists
\* exactly if the polling loop was left on SUCCEEDED; a run that ended on a failing
\* command or on a non-success status after packaging has left the directory behind.
C17_TempDirGoneIffBuildSucceeded ==
  (pc = "done" /\ sh.TEMP_DIR # "") =>
    (sh.TEMP_DIR \notin dirs <=> (statusLog # << >> /\ Last(statusLog) = "SUCCEEDED"))

C17_Witness ==
  /\ pc = "done"
  /\ sh.TEMP_DIR # ""
  /\ sh.TEMP_DIR \notin dirs
  /\ Last(log) = "rm -rf TEMP_DIR"

\* the AppRunnerStack declarations of the i-th synthesis that declare the service
ServicesDeclared(i) ==
  {d \in deploys[i].decl : d.kind = "AppRunnerStack" /\ d.service.declared}

Names(seq) == [i \in 1..Len(seq) |-> seq[i].name]

\* C13 as stated: without a secret ARN, a declared service has no
\* runtimeEnvironmentSecrets block and its runtime environment variables are exactly
\* ENVIRONMENT and PORT.
C13_OnlyEnvironmentAndPort ==
  \A i \in 1..Len(deploys) :
    ~Truthy(deploys[i].ctx.secretsArn) =>
      \A d \in ServicesDeclared(i) :
        /\ "runtimeEnvironmentSecrets" \notin DOMAIN d.service.imageConfiguration
        /\ Names(d.service.imageConfiguration.runtimeEnvironmentVariables)
             = << "ENVIRONMENT", "PORT" >>

\* C13: without a secret ARN, a declared service has no runtimeEnvironmentSecrets
\* block, and its runtime environment variables are ENVIRONMENT (the stack's
\* environment) and PORT ("8080") followed by the variables bin/app.ts passes,
\* NODE_ENV=production and LOG_LEVEL=info.
C13_NoSecretsBlockFourVariables ==
  \A i \in 1..Len(deploys) :
    ~Truthy(deploys[i].ctx.secretsArn) =>
      \A d \in ServicesDeclared(i) :
        /\ "runtimeEnvironmentSecrets" \notin DOMAIN d.service.imageConfiguration
        /\ d.service.imageConfiguration.runtimeEnvironmentVariables
             = << [name |-> "ENVIRONMENT", value |-> d.environment],
                  [name |-> "PORT", value |-> "8080"],
                  [name |-> "NODE_ENV", value |-> "production"],
                  [name |-> "LOG_LEVEL", value |-> "info"] >>

C13_Witness ==
  /\ Len(deploys) = 1
  /\ deploys[1].ctx.secretsArn = Undefined
  /\ deploys[1].ctx.environment = "preview-bob"
  /\ ServicesDeclared(1) # {}
  /\ pc = "done"
  /\ "FastApiRunner-preview-bob" \in DOMAIN stacks

\* C14: when a secret ARN S is given, every declared service binds exactly the
\* secrets MYSQL_USER, MYSQL_PASSWORD, MYSQL_HOST, MYSQL_DATABASE, each with the
\* value S ":" KEY "::", and the instance role may read S; in every declaration the
\* read grant is present exactly if the bindings are.
C14_SecretBindsFourAndGrantsRead ==
  \A i \in 1..Len(deploys) :
    LET S == deploys[i].ctx.secretsArn
    IN  /\ Truthy(S) =>
             \A d \in ServicesDeclared(i) :
               /\ "runtimeEnvironmentSecrets" \in DOMAIN d.service.imageConfiguration
               /\ d.service.imageConfiguration.runtimeEnvironmentSecrets
                    = [k \in 1..4 |->
                         LET key == << "MYSQL_USER", "MYSQL_PASSWORD", "MYSQL_HOST",
                                       "MYSQL_DATABASE" >>[k]
                         IN  [name |-> key, value |-> S \o ":" \o key \o "::"]]
               /\ d.secretReadGrants = {S}
        /\ \A d \in ServicesDeclared(i) :
             (d.secretReadGrants # {})
               <=> ("runtimeEnvironmentSecrets" \in DOMAIN d.service.imageConfiguration)

\* C15: every AppRunnerStack declared emits the RepositoryUri output, whether or
\* not it declares the service, and emits the ServiceUrl and ServiceId outputs
\* exactly if createService is true, that is exactly if it declares the service.
C15_OutputsFollowCreateService ==
  \A i \in 1..Len(deploys) :
    \A d \in deploys[i].decl :
      d.kind = "AppRunnerStack" =>
        /\ "RepositoryUri" \in d.outputs
        /\ ("ServiceUrl" \in d.outputs) <=> d.createService
        /\ ("ServiceId" \in d.outputs) <=> d.createService
        /\ d.createService <=> ("Service" \in d.resources)
        /\ d.outputs \subseteq {"RepositoryUri", "ServiceUrl", "ServiceId"}

C15_Witness ==
  /\ Len(deploys) = 1
  /\ deploys[1].ctx.createService = "false"
  /\ \E d \in deploys[1].decl :
       /\ d.kind = "AppRunnerStack"
       /\ ~d.createService
       /\ d.outputs = {"RepositoryUri"}
  /\ pc = "done"
  /\ \E n \in DOMAIN stacks : stacks[n].outputs = {"RepositoryUri"}

\* the buckets, roles and projects of the run's environment
BucketsOf(environment) ==
  {b \in DOMAIN codebuild.buckets : StartsWith(b, "codebuild-source-" \o environment \o "-")}
RolesOf(environment) ==
  {r \in codebuild.roles : r = RoleName(ProjectName(environment))}
ProjectsOf(environment) ==
  {p \in DOMAIN codebuild.projects : p = ProjectName(environment)}

CreateCommands == {"create-role", "s3 mb", "create-project"}

\* C18: over the runs for one environment, the creation body is entered only when
\* the project does not exist; a run that found the project has issued no
\* create-role, bucket creation or create-project; there is never more than one
\* project, role or source bucket of the environment, and exactly one of each once a
\* build has been submitted.
C18_ProjectEnsuredOnce ==
  /\ pc = "create_project" => ProjectsOf(sh.ENVIRONMENT) = {}
  /\ (pc \in {"upload", "start_build", "poll_query"} /\ sh.PROJECT_EXISTS # "")
       => \A i \in 1..Len(log) : log[i] \notin CreateCommands
  /\ sh.ENVIRONMENT # "" =>
       /\ Cardinality(ProjectsOf(sh.ENVIRONMENT)) <= 1
       /\ Cardinality(RolesOf(sh.ENVIRONMENT)) <= 1
       /\ Cardinality(BucketsOf(sh.ENVIRONMENT)) <= 1
  /\ pc = "poll_query" =>
       /\ Cardinality(ProjectsOf(sh.ENVIRONMENT)) = 1
       /\ Cardinality(RolesOf(sh.ENVIRONMENT)) = 1
       /\ Cardinality(BucketsOf(sh.ENVIRONMENT)) = 1

\* C19: every build submitted builds from the archive its own run has uploaded to
\* the location the project reads from, never from the archive of an earlier run.
C19_BuildUsesOwnArchive ==
  \A i \in 1..Len(codebuild.builds) :
    codebuild.builds[i].archive = codebuild.builds[i].run

\* the two runs: the one executing and the one suspended
Runs ==
  { [pc |-> pc, sh |-> sh, log |-> log, probe |-> probe] }
  \cup (IF other.active
        THEN { [pc |-> other.pc, sh |-> other.sh, log |-> other.log,
                probe |-> other.probe] }
        ELSE {})

NotFoundKinds == {"not_found", "empty_error"}

\* C20: of two simultaneous runs for one environment, each decides by its own
\* observation alone, whatever the other has done since: a run invokes the bootstrap
\* convergence exactly if its own probe reported the stack missing, and enters the
\* creation of the build project exactly if its own list-projects reported none.
C20_EachRunDecidesAlone ==
  \A r \in Runs :
    /\ (Count(r.log, "cdk deploy createService=false") > 0) => r.probe.kind \in NotFoundKinds
    /\ (r.probe.kind \in NotFoundKinds /\ r.pc # "first_deploy")
         => Count(r.log, "cdk deploy createService=false") > 0
    /\ (Count(r.log, "get-role") > 0) => r.sh.PROJECT_EXISTS = ""
    /\ (Count(r.log, "list-projects") > 0 /\ r.sh.PROJECT_EXISTS = ""
          /\ r.pc # "create_project")
         => Count(r.log, "get-role") > 0

\* both runs have observed the stack missing and have invoked the bootstrap
\* convergence; both have observed the project missing and have tried to create it
C20_Witness ==
  /\ Cardinality(Runs) = 2
  /\ \A r \in Runs :
       /\ r.probe.kind = "not_found"
       /\ Count(r.log, "cdk deploy createService=false") = 1
       /\ Count(r.log, "list-projects") = 1
       /\ r.sh.PROJECT_EXISTS = ""
       /\ Count(r.log, "create-project") = 1

\* the four publisher steps of deploy.sh, in the order of the script
DockerCommands == << "docker build", "docker login", "docker tag", "docker push" >>

\* the publisher steps the run has executed, in order
DockerLog ==
  LET IsDocker(c) == \E k \in 1..4 : DockerCommands[k] = c
  IN  SelectSeq(log, IsDocker)

\* C22: in deploy.sh the publisher steps run in the order build, login, tag, push,
\* each at most once; a step runs only if the steps before it succeeded; a step
\* that fails ends the run with a non-zero status with nothing run after it, so
\* without push, retry, compensating command or full deployment; the full
\* deployment runs only after all four steps have succeeded.
C22_PublisherStepsInOrder ==
  /\ DockerLog = SubSeq(DockerCommands, 1, Len(DockerLog))
  /\ \A k \in 1..4 :
       DockerCommands[k] \in FailedCommands =>
         /\ pc = "done"
         /\ exitCode # 0
         /\ Len(DockerLog) = k
         /\ Last(log) = DockerCommands[k]
         /\ Count(log, "cdk deploy") = 0
         /\ printed = << >>
  /\ (Len(DockerLog) > 0 /\ pc # "done") =>
       FailedCommands \cap {DockerCommands[k] : k \in 1..4} = {}
  /\ (variant = "deploy.sh" /\ Count(log, "cdk deploy") > 0) =>
       /\ DockerLog = DockerCommands
       /\ FailedCommands \cap {DockerCommands[k] : k \in 1..4} = {}

C22_Witness ==
  /\ variant = "deploy.sh"
  /\ "docker tag" \in FailedCommands
  /\ DockerLog = << "docker build", "docker login", "docker tag" >>
  /\ pc = "done"
  /\ exitCode = 1

InLoop == pc \in {"poll_query", "poll_check", "poll_sleep"}

QueryFailed == "batch-get-builds" \in FailedCommands

\* the statuses the claim names as terminal, and the ones the script compares with
ClaimedTerminal == {"SUCCEEDED", "FAILED", "FAULTED", "TIMED_OUT", "STOPPED"}
CodeTerminal == {"SUCCEEDED", "FAILED", "FAULT", "TIMED_OUT", "STOPPED"}

\* C21 as stated: the loop has no bound; it is left only on one of SUCCEEDED, FAILED,
\* FAULTED, TIMED_OUT, STOPPED (or when the query itself fails), any other status
\* leads to the next query; and once the job reports one of these five statuses
\* the run eventually ends.
C21_ClaimedTerminalsEndTheRun ==
  /\ [][(InLoop /\ ~InLoop') => (sh'.BUILD_STATUS \in ClaimedTerminal \/ QueryFailed')]_vars
  /\ (pc = "poll_check" /\ sh.BUILD_STATUS \notin ClaimedTerminal) ~> (pc = "poll_query")
  /\ (pc = "poll_check" /\ sh.BUILD_STATUS \in ClaimedTerminal) ~> (pc = "done")

\* C21: the loop has no bound; it is left only on one of SUCCEEDED, FAILED, FAULT,
\* TIMED_OUT, STOPPED (or when the query itself fails), any other status, FAULTED
\* included, leads to the next query, however many have gone before; and once the
\* job reports one of these five statuses, every command returning, the run
\* eventually ends.
C21_CodeTerminalsEndTheRun ==
  /\ [][(InLoop /\ ~InLoop') => (sh'.BUILD_STATUS \in CodeTerminal \/ QueryFailed')]_vars
  /\ (pc = "poll_check" /\ sh.BUILD_STATUS \notin CodeTerminal) ~> (pc = "poll_query")
  /\ (pc = "poll_check" /\ sh.BUILD_STATUS \in CodeTerminal) ~> (pc = "done")

\* the loop is still waiting after more iterations than are on record
C21_Witness ==
  /\ hist.beyond
  /\ pc = "poll_sleep"
  /\ sh.BUILD_STATUS = "IN_PROGRESS"
  /\ Len(statusLog) = MaxPolls

\* the action of an execution has started (it runs or has ended)
Started(e, a) == pipeline[e].actions[a] # "none"

Succeeded(e, a) == pipeline[e].actions[a] = "succeeded"

\* C23: in every execution of the pipeline the stages are entered in the order
\* Source, UpdatePipeline, Quality, Build, DeployDev, ManualApproval, DeployProd:
\* the production deployment starts only after the dev deployment has succeeded
\* and the approval has been granted, and the dev deployment starts only after
\* every action of Quality and of Build has succeeded.
C23_ProdAfterDevAndApproval ==
  \A e \in 1..Len(pipeline) :
    /\ [i \in 1..pipeline[e].stage |-> Stages[i].stageName]
         = SubSeq(<< "Source", "UpdatePipeline", "Quality", "Build", "DeployDev",
                     "ManualApproval", "DeployProd" >>, 1, pipeline[e].stage)
    /\ Started(e, "DeployAppRunnerProd") =>
         /\ Succeeded(e, "DeployAppRunnerDev")
         /\ Succeeded(e, "ApproveProductionDeployment")
    /\ Started(e, "DeployAppRunnerDev") =>
         \A a \in {"LintTypeSecrets", "UnitTests", "DepScan", "DockerBuild", "IacSynth"} :
           Succeeded(e, a)

\* an execution has deployed to production while a later one was stopped by a
\* failing action
C23_Witness ==
  \E e, f \in 1..Len(pipeline) :
    /\ Succeeded(e, "DeployAppRunnerProd")
    /\ pipeline[e].status = "Succeeded"
    /\ pipeline[f].status = "Failed"
    /\ ~Started(f, "DeployAppRunnerDev")

====
